---- MODULE Spec2Model ----
(***************************************************************************)
(* State-machine model of the AI request dispatch core:                    *)
(*   - RateLimitedQueue           (src/agents/rate_limiter.py)             *)
(*   - AIServiceManager           (src/agents/runner.py)                   *)
(*   - UserHistoryManager         (src/agents/agents_backend.py)           *)
(* Time is a discrete clock `now`; one tick is one second.                 *)
(* The asyncio event loop runs one callback at a time, so every handler    *)
(* is one atomic action between two of its await points.                   *)
(***************************************************************************)
EXTENDS Integers, Sequences, FiniteSets, TLC

\* ------------------------------------------------------------------ bounds
\* Constructor arguments of the modelled RateLimitedQueue and the horizon.
rpm == 30
timeout_seconds == 2
max_queue_size == 2
MaxTasks == 2
MaxCancels == 1
\* the clock stops one second past the deadline of a request admitted at time 0
MaxTime == timeout_seconds + 1
\* enough arrivals to fill the queue and have one more rejected
MaxRequests == max_queue_size + 1

\* RateLimitedQueue.__init__: self.release_interval = 60.0 / rpm
release_interval == 60 \div rpm

\* AIServiceManager: concurrent run_agent_threadpool callers, and how far the
\* distribution counter and the call counts run.
NumCallers == 2
MaxCounter == 12
MaxFailures == 1
MaxChatCalls == 12
MaxMemoryCalls == 3

\* UserHistoryManager: the turns made for the user and the rows stored for
\* the user.
MaxTurns == 4
MaxRows == 1
MaxCalls == 2

\* The chat simulators: the chat turns each user persists.
MaxChatTurns == 9

\* run_agent_stream: the chunks one upstream response delivers.
MaxChunks == 2

\* The entries one engine iteration or one shutdown drain pops and counts.
MaxPops == 2

\* The worker threads that run save_conversation_message at the same time,
\* and the rows they insert in all.
NumSavers == 2
MaxSaves == 3

RequestIds == 1..MaxRequests
Callers == 1..NumCallers
TaskIds == 1..MaxTasks
TurnIds == 1..MaxTurns
TheUser == 1
OtherUser == 2
UserIds == {TheUser, OtherUser}
NoTask == 0
NoRequest == 0
NoTime == -1

VARIABLES
    now,             \* time.time()
    request_queue,   \* self.request_queue: Seq of QueuedRequest
    stats,           \* self.stats
    is_running,      \* self.is_running
    processor_task,  \* self.processor_task (NoTask = None)
    task,            \* every _queue_processor task ever created: state, end of its
                     \* sleep, and the finished tasks whose awaiting stop_processor
                     \* the event loop resumes before this task's first step
    stop_waiting,    \* the tasks that suspended stop_processor calls await
    stop_snapshot,   \* what the caller of a suspended stop_processor saw queued and
                     \* pending when it called, per awaited task
    result_future,   \* QueuedRequest.result_future of every request
    caller,          \* where the enqueue_request call of every request stands
    last_release     \* queue_release_time of the latest QUEUE_RELEASE (NoTime: none)

VARIABLES
    main_client,             \* self.main_client is not None
    backup_client,           \* self.backup_client is not None
    global_request_counter,  \* self.global_request_counter
    main_api_stats,          \* self.main_api_stats
    backup_api_stats,        \* self.backup_api_stats
    api_keys,                \* len(self.api_keys): the configured OPENAI_API_KEY_1..5
    chat_index,              \* self.chat_index
    shared_index,            \* self.shared_index
    memory_index,            \* self.memory_index
    tp,                      \* each run_agent_threadpool caller: pc, current_count, api_type
    selection,               \* api_type returned for each value of the counter
    calls,                   \* finished run_agent / generate_embedding / extract calls
    upstream_requests,       \* calls that issued at least one upstream HTTP request
    last_call                \* the latest finished call: operation, clients tried,
                             \* how the attempts ended, what the caller got back

VARIABLES
    users,        \* history_manager.users: the user ids that have an entry
    history,      \* UserHistoryManager.history of the user
    initialized,  \* UserHistoryManager._initialized of the user
    turn,         \* every run_agent / run_agent_stream call made for the user
                  \* with history omitted: where it stands, what its fetch read
    store         \* the conversation table: the rows of each user, oldest first

VARIABLES
    sim,          \* each user's chat simulator: where it stands in its turn, the
                  \* turns it has persisted, the memory jobs it has spawned
    stream        \* a call of AIServiceManager.run_agent_stream: where it stands,
                  \* its clients, the one in use, the chunks it has yielded

VARIABLES
    queue_lock,   \* RateLimiter.queue_lock: the thread that holds it
    stats_lock,   \* RateLimiter.stats_lock: the thread that holds it
    thread,       \* each thread's rate limiter operation: the acquisitions and
                  \* releases it still has to make
    saver         \* each worker thread's save_conversation_message: where it
                  \* stands, the sequence number it has read

qvars == <<now, request_queue, stats, is_running, processor_task, task,
           stop_waiting, stop_snapshot, result_future, caller, last_release>>

mvars == <<main_client, backup_client, global_request_counter, main_api_stats,
           backup_api_stats, api_keys, chat_index, shared_index, memory_index,
           tp, selection, calls, upstream_requests, last_call>>

hvars == <<users, history, initialized, turn, store>>

tvars == <<queue_lock, stats_lock, thread, saver>>

svars == <<sim, stream, tvars>>

vars == <<qvars, mvars, hvars, svars>>

\* ------------------------------------------------------- RateLimitedQueue

\* QueuedRequest(request_id, enqueue_time, timeout_time, result_future)
QueuedRequest(id, t) ==
    [request_id |-> id, enqueue_time |-> t, timeout_time |-> t + timeout_seconds]

\* A capacity check that admits one entry too many.
QueueFullOffByOne(current_size) == current_size > max_queue_size

\* enqueue_request: if current_size >= self.max_queue_size
QueueFull(current_size) == current_size >= max_queue_size

\* An admission at the head of the deque (appendleft).
QueueAppendLeft(q, r) == <<r>> \o q

\* self.request_queue.append(request)
QueueAppend(q, r) == Append(q, r)

\* A deadline test that lets a request live one second too long.
IsExpiredLate(current_time, r) == current_time > r.timeout_time + 1

\* _queue_processor: if current_time > request.timeout_time
IsExpired(current_time, r) == current_time > r.timeout_time

\* result_future.done()
FutureDone(f) == f # "pending"

\* An inner loop that ends with the first entry it pops, expired or not.
ScanQueueOnePerIteration(q, current_time) ==
    IF q = <<>>
    THEN [queue |-> <<>>, popped |-> <<>>, request_to_process |-> NoRequest]
    ELSE IF IsExpired(current_time, Head(q))
         THEN [queue |-> Tail(q), popped |-> <<Head(q).request_id>>,
               request_to_process |-> NoRequest]
         ELSE [queue |-> Tail(q), popped |-> <<>>,
               request_to_process |-> Head(q).request_id]

\* An inner loop that pops the entry to release without keeping it
\* (popleft() with its result not assigned to request_to_process).
RECURSIVE ScanQueueDropsHead(_, _)
ScanQueueDropsHead(q, current_time) ==
    IF q = <<>>
    THEN [queue |-> <<>>, popped |-> <<>>, request_to_process |-> NoRequest]
    ELSE IF IsExpired(current_time, Head(q))
         THEN LET rest == ScanQueueDropsHead(Tail(q), current_time)
              IN  [rest EXCEPT !.popped = <<Head(q).request_id>> \o @]
         ELSE [queue |-> Tail(q), popped |-> <<>>, request_to_process |-> NoRequest]

\* The inner `while self.request_queue` loop of _queue_processor: pops expired
\* requests from the front, then pops the first request that is not expired.
RECURSIVE ScanQueue(_, _)
ScanQueue(q, current_time) ==
    IF q = <<>>
    THEN [queue |-> <<>>, popped |-> <<>>, request_to_process |-> NoRequest]
    ELSE IF IsExpired(current_time, Head(q))
         THEN LET rest == ScanQueue(Tail(q), current_time)
              IN  [rest EXCEPT !.popped = <<Head(q).request_id>> \o @]
         ELSE [queue |-> Tail(q), popped |-> <<>>,
               request_to_process |-> Head(q).request_id]

\* asyncio.sleep(self.release_interval) at the end of an iteration
NextWake(current_time) == current_time + release_interval

SeqToSet(s) == {s[i] : i \in 1..Len(s)}

InitQueue ==
    /\ now = 0
    /\ request_queue = <<>>
    /\ stats = [total_enqueued |-> 0, total_processed |-> 0, total_rejected |-> 0,
                total_timeout |-> 0, current_queue_size |-> 0,
                max_queue_size_reached |-> 0]
    /\ is_running = FALSE
    /\ processor_task = NoTask
    /\ task = [k \in TaskIds |-> [state |-> "unborn", wake |-> 0, behind |-> {}]]
    /\ stop_waiting = {}
    /\ stop_snapshot = [k \in TaskIds |-> {}]
    /\ result_future = [id \in RequestIds |-> "unborn"]
    /\ caller = [id \in RequestIds |-> "unborn"]
    /\ last_release = NoTime

\* The clock advances; nothing in the program bounds how late a callback runs.
\* A sleep whose time has come is over (wake 0): its task is ready to run.
Tick ==
    /\ now < MaxTime
    /\ now' = now + 1
    /\ task' = [k \in TaskIds |->
                 IF task[k].state = "sleeping" /\ task[k].wake <= now + 1
                 THEN [task[k] EXCEPT !.wake = 0] ELSE task[k]]
    /\ UNCHANGED <<mvars, hvars, svars>>
    /\ UNCHANGED <<request_queue, stats, is_running, processor_task,
                   stop_waiting, stop_snapshot, result_future, caller,
                   last_release>>

\* Time goes on past the last instant the clock of the model tells apart: the
\* sleeps still pending come to their end.
TickBeyondHorizon ==
    /\ now = MaxTime
    /\ \E k \in TaskIds : task[k].state = "sleeping" /\ task[k].wake > now
    /\ task' = [k \in TaskIds |->
                 IF task[k].state = "sleeping"
                 THEN [task[k] EXCEPT !.wake = 0] ELSE task[k]]
    /\ UNCHANGED <<mvars, hvars, svars>>
    /\ UNCHANGED <<now, request_queue, stats, is_running, processor_task,
                   stop_waiting, stop_snapshot, result_future, caller,
                   last_release>>

\* The event loop runs ready callbacks in the order they were scheduled: the
\* stop_processor calls whose awaited task has already returned are resumed
\* before the first step of a task created now.
ResumesScheduled == {j \in stop_waiting : task[j].state = "done"}

\* start_processor
StartProcessor ==
    /\ ~is_running
    /\ \E k \in TaskIds :
        /\ task[k].state = "unborn"
        /\ \A j \in TaskIds : j < k => task[j].state # "unborn"
        /\ is_running' = TRUE
        /\ processor_task' = k
        /\ task' = [task EXCEPT ![k] = [state |-> "sleeping", wake |-> 0,
                                        behind |-> ResumesScheduled]]
    /\ UNCHANGED <<mvars, hvars, svars>>
    /\ UNCHANGED <<now, request_queue, stats, stop_waiting,
                   stop_snapshot, result_future, caller, last_release>>

\* `await self.processor_task` does not suspend: there is no task, or it returned
TaskFinished(k) == IF k = NoTask THEN TRUE ELSE task[k].state = "done"

\* The entries of request_queue whose future is not done
PendingQueued ==
    {request_queue[i].request_id : i \in
        {j \in 1..Len(request_queue) :
            ~FutureDone(result_future[request_queue[j].request_id])}}

\* A drain that counts one more timeout than the entries it failed.
DrainOnStopCountsCall ==
    /\ request_queue' = <<>>
    /\ result_future' = [id \in RequestIds |->
                           IF id \in PendingQueued THEN "shutdown"
                           ELSE result_future[id]]
    /\ caller' = [id \in RequestIds |->
                    IF id \in PendingQueued THEN "request_timeout" ELSE caller[id]]
    /\ stats' = [stats EXCEPT !.total_timeout = @ + Cardinality(PendingQueued) + 1]

\* The remaining-requests loop of stop_processor
DrainOnStop ==
    LET ids == SeqToSet([i \in 1..Len(request_queue) |-> request_queue[i].request_id])
        live == {id \in ids : ~FutureDone(result_future[id])}
    IN  /\ request_queue' = <<>>
        /\ result_future' = [id \in RequestIds |->
                               IF id \in live THEN "shutdown" ELSE result_future[id]]
        /\ caller' = [id \in RequestIds |->
                        IF id \in live THEN "request_timeout" ELSE caller[id]]
        /\ stats' = [stats EXCEPT !.total_timeout = @ + Cardinality(live)]

\* stop_processor when processor_task is None or already finished: no suspension
StopProcessor ==
    /\ TaskFinished(processor_task)
    /\ is_running' = FALSE
    /\ DrainOnStop
    /\ UNCHANGED <<mvars, hvars, svars>>
    /\ UNCHANGED <<now, processor_task, task, stop_waiting, stop_snapshot,
                   last_release>>

\* stop_processor up to `await self.processor_task`. A call that finds the
\* task already awaited by a suspended call resumes together with that call
\* and drains an empty queue, so one awaiting call per task is kept.
StopProcessorAwait ==
    /\ processor_task # NoTask
    /\ processor_task \notin stop_waiting
    /\ task[processor_task].state = "sleeping"
    /\ is_running' = FALSE
    /\ stop_waiting' = stop_waiting \cup {processor_task}
    /\ UNCHANGED <<mvars, hvars, svars>>
    /\ UNCHANGED <<now, request_queue, stats, processor_task, task, result_future,
                   caller, last_release>>

\* stop_processor resumed after the awaited task returned
StopProcessorResume(k) ==
    /\ k \in stop_waiting
    /\ task[k].state = "done"
    /\ stop_waiting' = stop_waiting \ {k}
    /\ DrainOnStop
    /\ UNCHANGED <<mvars, hvars, svars>>
    /\ UNCHANGED <<now, is_running, processor_task, task, last_release>>

\* _queue_processor: `while self.is_running` found false, the task returns
ProcessorExit(k) ==
    /\ task[k].state = "sleeping"
    /\ now >= task[k].wake
    /\ task[k].behind \cap stop_waiting = {}
    /\ ~is_running
    /\ task' = [task EXCEPT ![k] = [state |-> "done", wake |-> 0, behind |-> {}]]
    /\ UNCHANGED <<mvars, hvars, svars>>
    /\ UNCHANGED <<now, request_queue, stats, is_running, processor_task,
                   stop_waiting, stop_snapshot, result_future, caller,
                   last_release>>

\* _queue_processor: one iteration of the outer loop, up to its sleep
ProcessorIteration(k) ==
    /\ task[k].state = "sleeping"
    /\ now >= task[k].wake
    /\ task[k].behind \cap stop_waiting = {}
    /\ is_running
    /\ LET current_time == now
           scan == ScanQueue(request_queue, current_time)
           expired == {id \in SeqToSet(scan.popped) : ~FutureDone(result_future[id])}
           rtp == scan.request_to_process
           released == rtp # NoRequest /\ ~FutureDone(result_future[rtp])
           \* index of the last pop that wrote stats["current_queue_size"]
           lastWrite ==
               IF rtp # NoRequest THEN Len(scan.popped) + 1
               ELSE IF expired = {} THEN 0
               ELSE CHOOSE i \in 1..Len(scan.popped) :
                      /\ scan.popped[i] \in expired
                      /\ \A j \in (i+1)..Len(scan.popped) : scan.popped[j] \notin expired
       IN  /\ request_queue' = scan.queue
           /\ result_future' = [id \in RequestIds |->
                                  IF id \in expired THEN "timeout"
                                  ELSE IF released /\ id = rtp THEN "ready"
                                  ELSE result_future[id]]
           /\ caller' = [id \in RequestIds |->
                           IF id \in expired THEN "request_timeout"
                           ELSE IF released /\ id = rtp THEN "returned"
                           ELSE caller[id]]
           /\ stats' = [stats EXCEPT
                          !.total_timeout = @ + Cardinality(expired),
                          !.total_processed = IF released THEN @ + 1 ELSE @,
                          !.current_queue_size =
                              IF lastWrite = 0 THEN @
                              ELSE Len(request_queue) - lastWrite]
           /\ last_release' =
                  IF released
                  THEN current_time
                  ELSE last_release
           /\ task' = [task EXCEPT ![k].wake = NextWake(current_time),
                                    ![k].behind = {}]
    /\ UNCHANGED <<mvars, hvars, svars>>
    /\ UNCHANGED <<now, is_running, processor_task, stop_waiting,
                   stop_snapshot>>

\* enqueue_request up to `await result_future`, or its queue-full raise
EnqueueRequest(id) ==
    /\ caller[id] = "unborn"
    /\ \A j \in RequestIds : j < id => caller[j] # "unborn"
    /\ LET enqueue_time == now
           request == QueuedRequest(id, enqueue_time)
           current_size == Len(request_queue)
       IN  IF QueueFull(current_size)
           THEN /\ stats' = [stats EXCEPT !.total_rejected = @ + 1]
                /\ caller' = [caller EXCEPT ![id] = "queue_full"]
                /\ UNCHANGED <<request_queue, result_future>>
           ELSE LET q2 == QueueAppend(request_queue, request)
                    queue_size_after == Len(q2)
                IN  /\ request_queue' = q2
                    /\ stats' = [stats EXCEPT
                                   !.total_enqueued = @ + 1,
                                   !.current_queue_size = queue_size_after,
                                   !.max_queue_size_reached =
                                       IF queue_size_after > @
                                       THEN queue_size_after ELSE @]
                    /\ caller' = [caller EXCEPT ![id] = "waiting"]
                    /\ result_future' = [result_future EXCEPT ![id] = "pending"]
    /\ UNCHANGED <<mvars, hvars, svars>>
    /\ UNCHANGED <<now, is_running, processor_task, task, stop_waiting,
                   stop_snapshot, last_release>>

\* The caller's task is cancelled while it awaits result_future: asyncio
\* cancels the awaited future; the QueuedRequest stays in request_queue.
CallerCancel(id) ==
    /\ Cardinality({j \in RequestIds : caller[j] = "cancelled"}) < MaxCancels
    /\ caller[id] = "waiting"
    /\ result_future[id] = "pending"
    /\ caller' = [caller EXCEPT ![id] = "cancelled"]
    /\ result_future' = [result_future EXCEPT ![id] = "cancelled"]
    /\ UNCHANGED <<mvars, hvars, svars>>
    /\ UNCHANGED <<now, request_queue, stats, is_running, processor_task, task,
                   stop_waiting, stop_snapshot, last_release>>

\* ------------------------------------------------------- AIServiceManager

\* self.chat_priority_indices, self.shared_indices, self.memory_priority_indices
chat_priority_indices == <<0, 1, 2>>
shared_indices == <<1, 2, 3>>
memory_priority_indices == <<3, 4>>

\* A cycle of five instead of six.
PositionInCycleOfFive(current_count) == current_count % 5

\* get_api_for_next_request: position_in_cycle = current_count % 6
PositionInCycle(current_count) == current_count % 6

\* get_api_for_next_request after the counter increment: (api_type, client),
\* or the ValueError it raises when a main position finds no main client
SelectApi(current_count) ==
    IF PositionInCycle(current_count) = 0
    THEN IF backup_client
         THEN [api_type |-> "backup", client |-> "BACKUP"]
         ELSE [api_type |-> "main_fallback",
               client |-> IF main_client THEN "MAIN" ELSE "NONE"]
    ELSE IF main_client
         THEN [api_type |-> "main", client |-> "MAIN"]
         ELSE [api_type |-> "ValueError", client |-> "NONE"]

\* start_call / end_call: api_type.startswith("main")
UsesMainStats(api_type) == api_type \in {"main", "main_fallback"}

\* start_call
StartCallStats(st) ==
    [st EXCEPT !.in_flight_calls = @ + 1,
               !.total_calls = @ + 1,
               !.max_in_flight = IF st.in_flight_calls + 1 > @
                                 THEN st.in_flight_calls + 1 ELSE @]

\* end_call
EndCallStats(st, success) ==
    [st EXCEPT !.in_flight_calls = IF @ - 1 > 0 THEN @ - 1 ELSE 0,
               !.completed_calls = IF success THEN @ + 1 ELSE @,
               !.failed_calls = IF success THEN @ ELSE @ + 1]

ZeroStats ==
    [in_flight_calls |-> 0, max_in_flight |-> 0, total_calls |-> 0,
     completed_calls |-> 0, failed_calls |-> 0]

IdleCaller == [pc |-> "idle", current_count |-> 0, api_type |-> "none"]

NoCall == [operation |-> "none", attempts |-> <<>>, result |-> "none",
           returned |-> "none", dim |-> 0]

\* The length of the vectors of this service: `[0.0] * 1536`, and what the
\* upstream returns for model="text-embedding-3-small"
EmbeddingDim == 1536

\* What a finished call hands to its caller: len() of a returned vector
Finished(call, returned) ==
    [operation |-> call.operation, attempts |-> call.attempts,
     result |-> call.result, returned |-> returned,
     dim |-> IF returned \in {"embedding", "zero_vector"} THEN EmbeddingDim ELSE 0]

\* The client that get_api_for_next_request handed out: self.main_client or
\* self.backup_client (which of the two is in tp and selection)
AccountClient == [credential |-> "MAIN_API_KEY or BACKUP_API_KEY", key_index |-> 0]

\* run_agent_threadpool: `return result["content"]`, or the outer
\* `except Exception` returning f"[OpenAI Error] {str(e)}"
ThreadpoolReturn(call) ==
    Finished(call, IF call.result = "reply" THEN "reply" ELSE "[OpenAI Error]")

\* AIServiceManager.__init__ for one environment
InitManager(main, backup, keys) ==
    /\ main_client = main
    /\ backup_client = backup
    /\ global_request_counter = 0
    /\ main_api_stats = ZeroStats
    /\ backup_api_stats = ZeroStats
    /\ api_keys = keys
    /\ chat_index = 0
    /\ shared_index = 0
    /\ memory_index = 0
    /\ tp = [c \in Callers |-> IdleCaller]
    /\ selection = [n \in 1..MaxCounter |-> "none"]
    /\ calls = [chat |-> 0, embedding |-> 0, extract |-> 0]
    /\ upstream_requests = 0
    /\ last_call = NoCall

\* get_api_for_next_request, the `with self.counter_lock` block
IncrementCounter(c) ==
    /\ tp[c].pc = "idle"
    /\ global_request_counter < MaxCounter
    /\ global_request_counter' = global_request_counter + 1
    /\ tp' = [tp EXCEPT ![c] = [pc |-> "counted",
                                current_count |-> global_request_counter + 1,
                                api_type |-> "none"]]
    /\ UNCHANGED <<qvars, hvars, svars>>
    /\ UNCHANGED <<main_client, backup_client, main_api_stats, backup_api_stats,
                   api_keys, chat_index, shared_index, memory_index, selection,
                   calls, upstream_requests, last_call>>

\* get_api_for_next_request after the lock, and run_agent_threadpool up to
\* start_call; without a client the call ends with "[OpenAI Error] ..."
SelectClient(c) ==
    /\ tp[c].pc = "counted"
    /\ LET sel == SelectApi(tp[c].current_count)
       IN  /\ selection' = [selection EXCEPT ![tp[c].current_count] = sel.api_type]
           /\ tp' = [tp EXCEPT ![c] =
                       IF sel.client = "NONE" THEN IdleCaller
                       ELSE [pc |-> "selected",
                             current_count |-> tp[c].current_count,
                             api_type |-> sel.api_type]]
           /\ last_call' =
                  IF sel.client = "NONE"
                  THEN ThreadpoolReturn([operation |-> "threadpool", attempts |-> <<>>,
                                         result |-> "exception"])
                  ELSE last_call
    /\ UNCHANGED <<qvars, hvars, svars>>
    /\ UNCHANGED <<main_client, backup_client, global_request_counter,
                   main_api_stats, backup_api_stats, api_keys, chat_index,
                   shared_index, memory_index, calls, upstream_requests>>

\* run_agent_threadpool: self.start_call(call_id, api_type), then the hand-off
\* to the executor
StartCall(c) ==
    /\ tp[c].pc = "selected"
    /\ IF UsesMainStats(tp[c].api_type)
       THEN /\ main_api_stats' = StartCallStats(main_api_stats)
            /\ UNCHANGED backup_api_stats
       ELSE /\ backup_api_stats' = StartCallStats(backup_api_stats)
            /\ UNCHANGED main_api_stats
    /\ tp' = [tp EXCEPT ![c].pc = "in_flight"]
    /\ UNCHANGED <<qvars, hvars, svars>>
    /\ UNCHANGED <<main_client, backup_client, global_request_counter, api_keys,
                   chat_index, shared_index, memory_index, selection, calls,
                   upstream_requests, last_call>>

\* run_agent_threadpool resumed from run_in_executor: end_call with the
\* upstream call's success or failure
EndCall(c) ==
    /\ tp[c].pc = "in_flight"
    /\ \E success \in BOOLEAN :
         /\ success \/ main_api_stats.failed_calls + backup_api_stats.failed_calls < MaxFailures
         /\ IF UsesMainStats(tp[c].api_type)
            THEN /\ main_api_stats' = EndCallStats(main_api_stats, success)
                 /\ UNCHANGED backup_api_stats
            ELSE /\ backup_api_stats' = EndCallStats(backup_api_stats, success)
                 /\ UNCHANGED main_api_stats
         /\ last_call' =
                ThreadpoolReturn([operation |-> "threadpool",
                                  attempts |-> <<AccountClient>>,
                                  result |-> IF success THEN "reply" ELSE "all_failed"])
    /\ tp' = [tp EXCEPT ![c] = IdleCaller]
    /\ UNCHANGED <<qvars, hvars, svars>>
    /\ UNCHANGED <<main_client, backup_client, global_request_counter, api_keys,
                   chat_index, shared_index, memory_index, selection, calls,
                   upstream_requests>>

\* The task of the caller is cancelled while run_agent_threadpool awaits
\* run_in_executor: CancelledError is not an Exception, so neither `except`
\* clause runs and end_call is not called (the worker thread runs on, its
\* result is dropped)
CancelCall(c) ==
    /\ tp[c].pc = "in_flight"
    /\ tp' = [tp EXCEPT ![c] = IdleCaller]
    /\ UNCHANGED <<qvars, hvars, svars>>
    /\ UNCHANGED <<main_client, backup_client, global_request_counter,
                   main_api_stats, backup_api_stats, api_keys, chat_index,
                   shared_index, memory_index, selection, calls,
                   upstream_requests, last_call>>

\* OpenAI(api_key=self.api_keys[key_index]): the client of one of the keys
\* OPENAI_API_KEY_1..5
KeyClient(key_index) == [credential |-> "OPENAI_API_KEY", key_index |-> key_index]

\* `for _ in range(len(indices))` over _get_next_chat_client /
\* _get_next_memory_client / _get_next_shared_client: the key indices taken in
\* turn, starting at the group's current index
RoundRobin(indices, index) ==
    [i \in 1..Len(indices) |-> indices[((index + i - 1) % Len(indices)) + 1]]

\* The first position whose key_index is outside self.api_keys (0: none):
\* self.api_keys[key_index] raises IndexError there
FirstMissing(key_indices) ==
    IF \E i \in 1..Len(key_indices) : key_indices[i] >= api_keys
    THEN CHOOSE i \in 1..Len(key_indices) :
           /\ key_indices[i] >= api_keys
           /\ \A j \in 1..(i - 1) : key_indices[j] < api_keys
    ELSE 0

\* The two client-gathering loops of run_agent, generate_embedding and
\* extract_memory_content: the clients built, and how far each group's index
\* advanced (the index moves before the key is looked up)
GatherClients(priority, pindex, shared, sindex) ==
    LET p == RoundRobin(priority, pindex)
        f == RoundRobin(shared, sindex)
        pbad == FirstMissing(p)
        fbad == FirstMissing(f)
    IN  IF pbad # 0
        THEN [raised |-> TRUE, clients |-> <<>>, padv |-> pbad, sadv |-> 0]
        ELSE IF fbad # 0
        THEN [raised |-> TRUE, clients |-> <<>>, padv |-> Len(p), sadv |-> fbad]
        ELSE [raised |-> FALSE,
              clients |-> [i \in 1..(Len(p) + Len(f)) |->
                             KeyClient(IF i <= Len(p) THEN p[i] ELSE f[i - Len(p)])],
              padv |-> Len(p), sadv |-> Len(f)]

\* _call_with_fallback: priority clients, then fallback clients, one after the
\* other until one succeeds; first_success = 0 when every client fails
CallWithFallback(operation, g, first_success) ==
    [operation |-> operation,
     attempts |-> IF g.raised THEN <<>>
                  ELSE SubSeq(g.clients, 1,
                              IF first_success = 0 THEN Len(g.clients)
                              ELSE first_success),
     result |-> IF g.raised THEN "exception"
                ELSE IF first_success = 0 THEN "all_failed" ELSE "reply"]

\* _call_with_fallback, its return: the first success, or for "chat_completion"
\* the error string, for "embedding" the default vector, else a raise
FallbackReturn(api_operation, result) ==
    IF result = "reply"
    THEN IF api_operation = "embedding" THEN "embedding" ELSE "reply"
    ELSE IF api_operation = "chat_completion" THEN "[OpenAI Error]"
    ELSE IF api_operation = "embedding" THEN "zero_vector"
    ELSE "raise"

\* A run_agent without its `except Exception`.
RunAgentReturnRaises(call) ==
    Finished(call, IF call.result = "exception" THEN "raise"
                   ELSE FallbackReturn("chat_completion", call.result))

\* run_agent: what _call_with_fallback returned, or f"[OpenAI Error] {str(e)}"
RunAgentReturn(call) ==
    Finished(call, IF call.result = "exception" THEN "[OpenAI Error]"
                   ELSE FallbackReturn("chat_completion", call.result))

\* A generate_embedding without its `except Exception`.
GenerateEmbeddingReturnRaises(call) ==
    Finished(call, IF call.result = "exception" THEN "raise"
                   ELSE FallbackReturn("embedding", call.result))

\* generate_embedding: what _call_with_fallback returned, or [0.0] * 1536
GenerateEmbeddingReturn(call) ==
    Finished(call, IF call.result = "exception" THEN "zero_vector"
                   ELSE FallbackReturn("embedding", call.result))

\* extract_memory_content: what _call_with_fallback returned for its
\* "chat_completion", or f"Memory extraction failed: {str(e)}"
ExtractMemoryContentReturn(call) ==
    Finished(call, IF call.result = "exception" THEN "Memory extraction failed"
                   ELSE FallbackReturn("chat_completion", call.result))

\* AIServiceManager.run_agent (also Runner.run): what it does to the manager
RunAgentCall ==
    /\ calls.chat < MaxChatCalls
    /\ LET g == GatherClients(chat_priority_indices, chat_index,
                              shared_indices, shared_index)
       IN  /\ chat_index' = (chat_index + g.padv) % Len(chat_priority_indices)
           /\ shared_index' = (shared_index + g.sadv) % Len(shared_indices)
           /\ \E first_success \in 0..Len(g.clients) :
                last_call' = RunAgentReturn(
                                CallWithFallback("chat_completion", g, first_success))
           /\ upstream_requests' = IF g.raised THEN upstream_requests
                                   ELSE upstream_requests + 1
    /\ calls' = [calls EXCEPT !.chat = @ + 1]
    /\ UNCHANGED <<main_client, backup_client, global_request_counter,
                   main_api_stats, backup_api_stats, api_keys, memory_index, tp,
                   selection>>

\* A call of run_agent by a caller other than run_agent_stream
RunAgent ==
    /\ RunAgentCall
    /\ UNCHANGED <<qvars, hvars, svars>>

\* AIServiceManager.generate_embedding
GenerateEmbedding ==
    /\ calls.embedding < MaxMemoryCalls
    /\ LET g == GatherClients(memory_priority_indices, memory_index,
                              shared_indices, shared_index)
       IN  /\ memory_index' = (memory_index + g.padv) % Len(memory_priority_indices)
           /\ shared_index' = (shared_index + g.sadv) % Len(shared_indices)
           /\ \E first_success \in 0..Len(g.clients) :
                last_call' = GenerateEmbeddingReturn(
                                CallWithFallback("embedding", g, first_success))
           /\ upstream_requests' = IF g.raised THEN upstream_requests
                                   ELSE upstream_requests + 1
    /\ calls' = [calls EXCEPT !.embedding = @ + 1]
    /\ UNCHANGED <<qvars, hvars, svars>>
    /\ UNCHANGED <<main_client, backup_client, global_request_counter,
                   main_api_stats, backup_api_stats, api_keys, chat_index, tp,
                   selection>>

\* AIServiceManager.extract_memory_content
ExtractMemoryContent ==
    /\ calls.extract < MaxMemoryCalls
    /\ LET g == GatherClients(memory_priority_indices, memory_index,
                              shared_indices, shared_index)
       IN  /\ memory_index' = (memory_index + g.padv) % Len(memory_priority_indices)
           /\ shared_index' = (shared_index + g.sadv) % Len(shared_indices)
           /\ \E first_success \in 0..Len(g.clients) :
                last_call' = ExtractMemoryContentReturn(
                                CallWithFallback("extract", g, first_success))
           /\ upstream_requests' = IF g.raised THEN upstream_requests
                                   ELSE upstream_requests + 1
    /\ calls' = [calls EXCEPT !.extract = @ + 1]
    /\ UNCHANGED <<qvars, hvars, svars>>
    /\ UNCHANGED <<main_client, backup_client, global_request_counter,
                   main_api_stats, backup_api_stats, api_keys, chat_index, tp,
                   selection>>

\* ------------------------------------------------------ run_agent_stream

\* A chunk yielded by run_agent_stream: the attempt it comes from (the
\* position of the client in priority_clients + fallback_clients; 0 for a
\* text of run_agent_stream itself, FallbackAttempt for the reply of
\* self.run_agent) and its number within that response.
Chunk(attempt, index) == [attempt |-> attempt, index |-> index]
FallbackAttempt == Len(chat_priority_indices) + Len(shared_indices) + 1

NoStream == [pc |-> "idle", clients |-> <<>>, attempt |-> 0, yielded |-> <<>>]

\* The chunks yielded so far from the attempt in progress
Received == Cardinality({i \in 1..Len(stream.yielded) :
                           stream.yielded[i].attempt = stream.attempt})

InitStream == stream = NoStream

\* run_agent_stream with model == "o3": response = await self.run_agent(...),
\* yield response, return
StreamO3 ==
    /\ stream.pc = "idle"
    /\ RunAgentCall
    /\ stream' = [stream EXCEPT !.pc = "done",
                                !.yielded = <<Chunk(FallbackAttempt, 1)>>]
    /\ UNCHANGED <<qvars, hvars, sim, tvars>>

\* run_agent_stream with another model, up to the first
\* client.chat.completions.create: the two client-gathering loops; an
\* IndexError there ends the call in `yield f"[OpenAI Error] {str(e)}"`
StreamStart ==
    /\ stream.pc = "idle"
    /\ LET g == GatherClients(chat_priority_indices, chat_index,
                              shared_indices, shared_index)
       IN  /\ chat_index' = (chat_index + g.padv) % Len(chat_priority_indices)
           /\ shared_index' = (shared_index + g.sadv) % Len(shared_indices)
           /\ stream' = IF g.raised
                        THEN [stream EXCEPT !.pc = "done", !.yielded = <<Chunk(0, 1)>>]
                        ELSE [stream EXCEPT !.pc = "attempt", !.clients = g.clients,
                                            !.attempt = 1]
    /\ UNCHANGED <<qvars, hvars, sim, tvars>>
    /\ UNCHANGED <<main_client, backup_client, global_request_counter,
                   main_api_stats, backup_api_stats, api_keys, memory_index, tp,
                   selection, calls, upstream_requests, last_call>>

\* `for chunk in stream: yield chunk.choices[0].delta.content`
StreamChunk ==
    /\ stream.pc = "attempt"
    /\ Received < MaxChunks
    /\ stream' = [stream EXCEPT !.yielded = Append(@, Chunk(stream.attempt, Received + 1))]
    /\ UNCHANGED <<qvars, mvars, hvars, sim, tvars>>

\* The response ends: return
StreamEnds ==
    /\ stream.pc = "attempt"
    /\ stream' = [stream EXCEPT !.pc = "done"]
    /\ UNCHANGED <<qvars, mvars, hvars, sim, tvars>>

\* create(**params) or the iteration over the response raises: `continue` with
\* the next client; after the last client, the yield of "[OpenAI Error] All
\* streaming clients failed, falling back to regular response"
StreamAttemptFails ==
    /\ stream.pc = "attempt"
    /\ stream' = IF stream.attempt < Len(stream.clients)
                 THEN [stream EXCEPT !.attempt = @ + 1]
                 ELSE [stream EXCEPT !.pc = "fallback",
                                     !.yielded = Append(@, Chunk(0, 1))]
    /\ UNCHANGED <<qvars, mvars, hvars, sim, tvars>>

\* response = await self.run_agent(agent, prompt, model); yield response
StreamFallbackResponse ==
    /\ stream.pc = "fallback"
    /\ RunAgentCall
    /\ stream' = [stream EXCEPT !.pc = "done",
                                !.yielded = Append(@, Chunk(FallbackAttempt, 1))]
    /\ UNCHANGED <<qvars, hvars, sim, tvars>>

\* ----------------------------------------------------- UserHistoryManager

\* UserHistoryManager.MAX_ROUNDS
MAX_ROUNDS == 3

\* One (role, content) pair of the history; the content of the messages of a
\* turn is the number of the turn.
Message(role, content) == [role |-> role, content |-> content]

\* save_conversation_message: the row it adds as the n-th row of a user. The
\* content, the id and the timestamp of a row are its number in that order.
Conversation(n, role, mode) ==
    [sequence_number |-> n,
     message_type |-> IF role = "user" THEN "user_input" ELSE "agent_response",
     content |-> n, timestamp |-> n, role |-> role, mode |-> mode]

\* The table after save_conversation_message(user_id, message, role, mode, ...)
SavedConversation(user_id, role, mode) ==
    [store EXCEPT ![user_id] = Append(@, Conversation(Len(@) + 1, role, mode))]

\* DatabaseManager.get_user_conversations: one dict of the list it returns
Row(conv) == [conversation_id |-> conv.sequence_number, content |-> conv.content,
              message_type |-> conv.message_type, timestamp |-> conv.timestamp]

\* get_user_conversations(user_id, limit): filter(user_id), then
\* order_by(timestamp.asc()).limit(limit)
GetUserConversations(user_id, limit) ==
    LET rows == store[user_id]
        n == IF Len(rows) < limit THEN Len(rows) ELSE limit
    IN  [i \in 1..n |-> Row(rows[i])]

\* list.reverse()
Reverse(rows) == [i \in 1..Len(rows) |-> rows[Len(rows) + 1 - i]]

\* ensure_initialized: [(c['role'], c['content']) for c in conversations] on
\* the reversed list; c['role'] raises KeyError for a dict without that key
ConvertRows(conversations) ==
    IF \A i \in 1..Len(conversations) : "role" \in DOMAIN conversations[i]
    THEN [raised |-> "none",
          history |-> [i \in 1..Len(conversations) |->
                         Message(conversations[i]["role"], conversations[i].content)]]
    ELSE [raised |-> "KeyError", history |-> <<>>]

\* An add_message that never truncates.
AddMessageUnbounded(h, role, content) == Append(h, Message(role, content))

\* An add_message that cuts at the tail: self.history[:MAX_ROUNDS * 2]
AddMessageDropNewest(h, role, content) ==
    LET appended == Append(h, Message(role, content))
    IN  IF Len(appended) > MAX_ROUNDS * 2
        THEN SubSeq(appended, 1, MAX_ROUNDS * 2)
        ELSE appended

\* An add_message whose bound is one message short of MAX_ROUNDS rounds: the
\* test and the slice use MAX_ROUNDS * 2 - 1
AddMessageOddBound(h, role, content) ==
    LET appended == Append(h, Message(role, content))
    IN  IF Len(appended) > MAX_ROUNDS * 2 - 1
        THEN SubSeq(appended, Len(appended) - MAX_ROUNDS * 2 + 2, Len(appended))
        ELSE appended

\* UserHistoryManager.add_message
AddMessage(h, role, content) ==
    LET appended == Append(h, Message(role, content))
    IN  IF Len(appended) > MAX_ROUNDS * 2
        THEN SubSeq(appended, Len(appended) - MAX_ROUNDS * 2 + 1, Len(appended))
        ELSE appended

\* The history argument of run_agent / run_agent_stream: None, or a list
NoHistory == [omitted |-> TRUE, history |-> <<>>]
HistoryArgs ==
    {NoHistory,
     [omitted |-> FALSE, history |-> <<>>],
     [omitted |-> FALSE, history |-> <<Message("User", 0), Message("Assistant", 0)>>]}

\* use_history_manager = (history is None), with a test of `not history`.
UseHistoryManagerIfFalsy(arg) == arg.omitted \/ arg.history = <<>>

\* use_history_manager = (history is None)
UseHistoryManager(arg) == arg.omitted

\* A call of run_agent / run_agent_stream: its arguments, where it stands, the
\* rows its fetch read, and the parts of its prompt (the history it uses and
\* whether a section of retrieved context follows).
NoPrompt == [history |-> <<>>, context |-> FALSE]
NoTurn == [pc |-> "unborn", conversations |-> <<>>, call |-> "none", mode |-> "none",
           arg |-> NoHistory, prompt |-> NoPrompt]
Done == [NoTurn EXCEPT !.pc = "done"]

\* Where the call suspends once it holds its history: run_agent awaits
\* create_memory_context whatever the mode, run_agent_stream awaits it for
\* mode == "chat" only and otherwise goes on to its first chunk.
AfterHistory(call, mode) ==
    IF call = "run_agent" \/ mode = "chat" THEN "memory_context" ELSE "streaming"

\* HistoryManager.__init__, and the conversation table as the process finds it
InitHistory(rows, mode) ==
    /\ users = {}
    /\ history = <<>>
    /\ initialized = FALSE
    /\ turn = [t \in TurnIds |-> NoTurn]
    /\ store = [u \in UserIds |->
                  IF u = TheUser
                  THEN [i \in 1..rows |->
                          Conversation(i, IF i % 2 = 1 THEN "user" ELSE "assistant", mode)]
                  ELSE <<>>]

\* run_agent / run_agent_stream up to its first suspension. With a history
\* supplied the registry is not used. With history=None
\* get_user_history_manager creates the entry; ensure_initialized returns at
\* once when _initialized is set (the call goes on to get_history), or else
\* suspends in get_user_conversations_async.
TurnStart(t, call, mode, arg) ==
    /\ turn[t].pc = "unborn"
    /\ \A j \in TurnIds : j < t => turn[j].pc # "unborn"
    /\ IF UseHistoryManager(arg)
       THEN /\ users' = users \cup {TheUser}
            /\ turn' = [turn EXCEPT ![t] =
                          IF initialized
                          THEN [NoTurn EXCEPT !.pc = AfterHistory(call, mode),
                                              !.call = call, !.mode = mode, !.arg = arg,
                                              !.prompt.history = history]
                          ELSE [NoTurn EXCEPT !.pc = "fetching",
                                              !.call = call, !.mode = mode, !.arg = arg]]
       ELSE /\ users' = users
            /\ turn' = [turn EXCEPT ![t] =
                          [NoTurn EXCEPT !.pc = AfterHistory(call, mode),
                                         !.call = call, !.mode = mode, !.arg = arg,
                                         !.prompt.history = arg.history]]
    /\ UNCHANGED <<qvars, mvars, svars>>
    /\ UNCHANGED <<history, initialized, store>>

\* The executor thread runs get_user_conversations(user_id, limit=MAX_ROUNDS * 2)
FetchRows(t) ==
    /\ turn[t].pc = "fetching"
    /\ turn' = [turn EXCEPT ![t].pc = "fetched",
                            ![t].conversations =
                                GetUserConversations(TheUser, MAX_ROUNDS * 2)]
    /\ UNCHANGED <<qvars, mvars, svars>>
    /\ UNCHANGED <<users, history, initialized, store>>

\* ensure_initialized resumed with the rows: reverse, convert, set the history
\* and _initialized; then get_history. A KeyError ends the call.
Hydrate(t) ==
    /\ turn[t].pc = "fetched"
    /\ LET converted == ConvertRows(Reverse(turn[t].conversations))
       IN  IF converted.raised = "none"
           THEN /\ history' = converted.history
                /\ initialized' = TRUE
                /\ turn' = [turn EXCEPT ![t].pc = AfterHistory(turn[t].call, turn[t].mode),
                                        ![t].conversations = <<>>,
                                        ![t].prompt.history = converted.history]
           ELSE /\ turn' = [turn EXCEPT ![t] = [NoTurn EXCEPT !.pc = "KeyError"]]
                /\ UNCHANGED <<history, initialized>>
    /\ UNCHANGED <<qvars, mvars, svars>>
    /\ UNCHANGED <<users, store>>

\* run_agent_stream resumed with the memory context, which may be empty: the
\* prompt is built and the first chunk is awaited
StreamBegin(t) ==
    /\ turn[t].pc = "memory_context"
    /\ turn[t].call = "run_agent_stream"
    /\ \E memory_context \in BOOLEAN :
         turn' = [turn EXCEPT ![t].pc = "streaming", ![t].prompt.context = memory_context]
    /\ UNCHANGED <<qvars, mvars, svars>>
    /\ UNCHANGED <<users, history, initialized, store>>

\* The end of the call: run_agent resumed with the memory context builds the
\* prompt and runs Runner.run, which does not suspend; run_agent_stream has
\* yielded its last chunk. With history=None the two messages of the turn are
\* added to the history of the user.
TurnFinish(t) ==
    /\ \/ turn[t].pc = "memory_context" /\ turn[t].call = "run_agent"
       \/ turn[t].pc = "streaming"
    /\ history' = IF UseHistoryManager(turn[t].arg)
                  THEN AddMessage(AddMessage(history, "User", t), "Assistant", t)
                  ELSE history
    /\ turn' = [turn EXCEPT ![t] = Done]
    /\ UNCHANGED <<qvars, mvars, svars>>
    /\ UNCHANGED <<users, initialized, store>>

\* UserHistoryManager.clear, on an entry that is not already cleared
Clear ==
    /\ TheUser \in users
    /\ initialized \/ history # <<>>
    /\ history' = <<>>
    /\ initialized' = FALSE
    /\ UNCHANGED <<qvars, mvars, svars>>
    /\ UNCHANGED <<users, turn, store>>

\* save_conversation_message: a row is added to the user's conversations
SaveConversationMessage ==
    /\ Len(store[TheUser]) < MaxRows
    /\ store' = SavedConversation(TheUser,
                                  IF Len(store[TheUser]) % 2 = 0 THEN "user" ELSE "assistant",
                                  "chat")
    /\ UNCHANGED <<qvars, mvars, svars>>
    /\ UNCHANGED <<users, history, initialized, turn>>

\* ------------------------------------------------------- chat simulators

\* get_user_message_count counting the rows of every user.
GetUserMessageCountAnyUser(user_id, mode) ==
    LET RECURSIVE Total(_)
        Total(us) ==
            IF us = {} THEN 0
            ELSE LET u == CHOOSE x \in us : TRUE
                 IN  Cardinality({i \in 1..Len(store[u]) : store[u][i].mode = mode})
                       + Total(us \ {u})
    IN  Total(UserIds)

\* get_user_message_count(user_id, mode): the rows of the user with that mode
GetUserMessageCount(user_id, mode) ==
    Cardinality({i \in 1..Len(store[user_id]) : store[user_id][i].mode = mode})

\* memory_system.check_memory_trigger(user_id, "chat", message_count): the
\* message-count trigger
CheckMemoryTrigger(message_count) == message_count % 3 = 0

InitSimulators ==
    sim = [u \in UserIds |-> [pc |-> "ask", turns |-> 0, jobs |-> 0]]

\* UserSimulator.run_all_questions, a question answered in time: run_agent has
\* returned and save_conversation_message_async(user_id, q_text, "user",
\* "chat", 1) has run
SimSaveQuestion(u) ==
    /\ sim[u].pc = "ask"
    /\ sim[u].turns < MaxChatTurns
    /\ store' = SavedConversation(u, "user", "chat")
    /\ sim' = [sim EXCEPT ![u].pc = "question_saved"]
    /\ UNCHANGED <<qvars, mvars, stream, tvars>>
    /\ UNCHANGED <<users, history, initialized, turn>>

\* save_conversation_message_async(user_id, response, "assistant", "chat", 1)
SimSaveResponse(u) ==
    /\ sim[u].pc = "question_saved"
    /\ store' = SavedConversation(u, "assistant", "chat")
    /\ sim' = [sim EXCEPT ![u].pc = "response_saved"]
    /\ UNCHANGED <<qvars, mvars, stream, tvars>>
    /\ UNCHANGED <<users, history, initialized, turn>>

\* get_user_message_count_async, the test of the count, check_memory_trigger
\* and asyncio.create_task(create_memory_async(...)); the turn is over
SimCheckTrigger(u) ==
    /\ sim[u].pc = "response_saved"
    /\ LET message_count == GetUserMessageCount(u, "chat")
           spawn == message_count % 3 = 0 /\ CheckMemoryTrigger(message_count)
       IN  sim' = [sim EXCEPT ![u] = [pc |-> "ask", turns |-> @.turns + 1,
                                      jobs |-> IF spawn THEN @.jobs + 1 ELSE @.jobs]]
    /\ UNCHANGED <<qvars, mvars, hvars, stream, tvars>>

\* ------------------------------------------------------- the two locks

Threads == {"event_loop", "caller"}
NoThread == "none"

Acquire(lock) == [do |-> "acquire", lock |-> lock]
Release(lock) == [do |-> "release", lock |-> lock]

\* `with self.stats_lock:` entered n times, one after the other
RECURSIVE StatsLockTimes(_)
StatsLockTimes(n) ==
    IF n = 0 THEN <<>>
    ELSE <<Acquire("stats_lock"), Release("stats_lock")>> \o StatsLockTimes(n - 1)

\* the drain loop of stop_processor popping n entries: queue_lock for the pop,
\* then, after its release, stats_lock for the count
RECURSIVE DrainTimes(_)
DrainTimes(n) ==
    IF n = 0 THEN <<>>
    ELSE <<Acquire("queue_lock"), Release("queue_lock"),
           Acquire("stats_lock"), Release("stats_lock")>> \o DrainTimes(n - 1)

\* get_stats: stats_lock around the whole body, queue_lock inside it for the
\* average wait
GetStats ==
    <<Acquire("stats_lock"), Acquire("queue_lock"),
      Release("queue_lock"), Release("stats_lock")>>

\* enqueue_request: queue_lock around the capacity test and the append,
\* stats_lock inside it for the rejected count or for the enqueued counts
EnqueueRequestLocks ==
    <<Acquire("queue_lock"), Acquire("stats_lock"),
      Release("stats_lock"), Release("queue_lock")>>

\* one iteration of _queue_processor: queue_lock around the scan, stats_lock
\* inside it once per counted pop, and once more after it for a release
QueueProcessorLocks(pops, released) ==
    <<Acquire("queue_lock")>> \o StatsLockTimes(pops) \o <<Release("queue_lock")>>
        \o (IF released THEN StatsLockTimes(1) ELSE <<>>)

\* stop_processor: queue_lock for the count of the remaining entries, then
\* the drain loop and its last, empty, test
StopProcessorLocks(remaining) ==
    <<Acquire("queue_lock"), Release("queue_lock")>>
        \o (IF remaining = 0 THEN <<>>
            ELSE DrainTimes(remaining)
                     \o <<Acquire("queue_lock"), Release("queue_lock")>>)

Holder(lock) == IF lock = "queue_lock" THEN queue_lock ELSE stats_lock

Idle == [op |-> "idle", todo |-> <<>>]

InitLocks ==
    /\ queue_lock = NoThread
    /\ stats_lock = NoThread
    /\ thread = [t \in Threads |-> Idle]

\* a thread enters an operation of the rate limiter
Call(t, op, todo) ==
    /\ thread[t] = Idle
    /\ thread' = [thread EXCEPT ![t] = [op |-> op, todo |-> todo]]
    /\ UNCHANGED <<queue_lock, stats_lock, saver>>
    /\ UNCHANGED <<qvars, mvars, hvars, sim, stream>>

\* threading.Lock.__enter__: the thread gets the lock when nobody holds it
LockEnter(t) ==
    /\ thread[t].todo # <<>>
    /\ Head(thread[t].todo).do = "acquire"
    /\ Holder(Head(thread[t].todo).lock) = NoThread
    /\ IF Head(thread[t].todo).lock = "queue_lock"
       THEN queue_lock' = t /\ UNCHANGED stats_lock
       ELSE stats_lock' = t /\ UNCHANGED queue_lock
    /\ thread' = [thread EXCEPT ![t].todo = Tail(@)]
    /\ UNCHANGED <<qvars, mvars, hvars, sim, stream, saver>>

\* threading.Lock.__exit__; after its last release the operation returns
LockExit(t) ==
    /\ thread[t].todo # <<>>
    /\ Head(thread[t].todo).do = "release"
    /\ IF Head(thread[t].todo).lock = "queue_lock"
       THEN queue_lock' = NoThread /\ UNCHANGED stats_lock
       ELSE stats_lock' = NoThread /\ UNCHANGED queue_lock
    /\ thread' = [thread EXCEPT ![t] = IF Len(@.todo) = 1 THEN Idle
                                       ELSE [@ EXCEPT !.todo = Tail(@)]]
    /\ UNCHANGED <<qvars, mvars, hvars, sim, stream, saver>>

\* ------------------------------------------- save_conversation_message

Savers == 1..NumSavers

NoSave == [pc |-> "idle", user_id |-> TheUser, next_sequence |-> 0]

InitSavers == saver = [w \in Savers |-> NoSave]

InitThreads == InitLocks /\ InitSavers

\* query(Conversation).filter(user_id).order_by(sequence_number.desc())
\* .first(), then `1 if not last_conversation else sequence_number + 1`
NextSequence(user_id) ==
    LET rows == store[user_id]
    IN  IF rows = <<>> THEN 1
        ELSE LET last == CHOOSE i \in 1..Len(rows) :
                            \A j \in 1..Len(rows) :
                                rows[j].sequence_number <= rows[i].sequence_number
             IN  rows[last].sequence_number + 1

\* A worker thread of the executor starts save_conversation_message(user_id,
\* message, role, mode, agent_type): it reads the user's last row and computes
\* next_sequence
SaveRead(w, user_id) ==
    /\ saver[w].pc = "idle"
    /\ Len(store[user_id])
         + Cardinality({v \in Savers : saver[v].pc = "read"
                                        /\ saver[v].user_id = user_id}) < MaxSaves
    /\ saver' = [saver EXCEPT ![w] = [pc |-> "read", user_id |-> user_id,
                                      next_sequence |-> NextSequence(user_id)]]
    /\ UNCHANGED <<qvars, mvars, hvars, sim, stream>>
    /\ UNCHANGED <<queue_lock, stats_lock, thread>>

\* self.db.add(conversation); self.db.commit(): the row is stored with the
\* sequence number computed from the read
SaveInsert(w, role) ==
    /\ saver[w].pc = "read"
    /\ store' = [store EXCEPT ![saver[w].user_id] =
                    Append(@, Conversation(saver[w].next_sequence, role, "chat"))]
    /\ saver' = [saver EXCEPT ![w] = NoSave]
    /\ UNCHANGED <<qvars, mvars, sim, stream>>
    /\ UNCHANGED <<users, history, initialized, turn>>
    /\ UNCHANGED <<queue_lock, stats_lock, thread>>

\* ------------------------------------------------------- specifications

\* The rate limiter on its own (the manager never calls it), with
\* stop_processor called by one caller at a time.
Init == InitQueue /\ InitManager(TRUE, TRUE, 5) /\ InitHistory(0, "chat") /\ InitSimulators /\ InitStream /\ InitThreads
Next ==
    \/ Tick
    \/ StartProcessor
    \/ (stop_waiting = {} /\ StopProcessor)
    \/ (stop_waiting = {} /\ StopProcessorAwait /\ UNCHANGED stop_snapshot)
    \/ \E k \in TaskIds : (StopProcessorResume(k) /\ UNCHANGED stop_snapshot)
    \/ \E k \in TaskIds : ProcessorExit(k)
    \/ \E k \in TaskIds : ProcessorIteration(k)
    \/ \E id \in RequestIds : EnqueueRequest(id)
    \/ \E id \in RequestIds : CallerCancel(id)
Spec == Init /\ [][Next]_vars

\* The rate limiter with stop_processor called concurrently; the caller of a
\* call that suspends notes the entries it saw queued and pending.
ObserveStopCall ==
    stop_snapshot' = [stop_snapshot EXCEPT ![processor_task] = PendingQueued]
ObserveStopReturn(k) ==
    stop_snapshot' = [stop_snapshot EXCEPT ![k] = {}]
NextStop ==
    \/ Tick
    \/ StartProcessor
    \/ StopProcessor
    \/ (StopProcessorAwait /\ ObserveStopCall)
    \/ \E k \in TaskIds : (StopProcessorResume(k) /\ ObserveStopReturn(k))
    \/ \E k \in TaskIds : ProcessorExit(k)
    \/ \E k \in TaskIds : ProcessorIteration(k)
    \/ \E id \in RequestIds : EnqueueRequest(id)
    \/ \E id \in RequestIds : CallerCancel(id)
SpecStop == Init /\ [][NextStop]_vars

\* The rate limiter with an engine that, once started, is not stopped: time
\* passes, and an engine task whose sleep is over gets to run.
NextEngine ==
    \/ Tick
    \/ TickBeyondHorizon
    \/ StartProcessor
    \/ \E k \in TaskIds : ProcessorIteration(k)
    \/ \E id \in RequestIds : EnqueueRequest(id)
    \/ \E id \in RequestIds : CallerCancel(id)
SpecEngine ==
    /\ Init
    /\ [][NextEngine]_vars
    /\ WF_vars(Tick)
    /\ WF_vars(TickBeyondHorizon)
    /\ \A k \in TaskIds : WF_vars(ProcessorIteration(k))

\* The lock discipline of the rate limiter: the event loop's thread runs
\* enqueue_request, _queue_processor and stop_processor, one at a time, while
\* another thread calls get_stats.
NextLocks ==
    \/ Call("event_loop", "enqueue_request", EnqueueRequestLocks)
    \/ \E pops \in 0..MaxPops, released \in BOOLEAN :
          Call("event_loop", "_queue_processor", QueueProcessorLocks(pops, released))
    \/ \E remaining \in 0..MaxPops :
          Call("event_loop", "stop_processor", StopProcessorLocks(remaining))
    \/ Call("caller", "get_stats", GetStats)
    \/ \E t \in Threads : LockEnter(t)
    \/ \E t \in Threads : LockExit(t)
SpecLocks == Init /\ [][NextLocks]_vars

\* save_conversation_message_async(user_id, message, "user", "chat", 1) called
\* concurrently: each call runs save_conversation_message on a worker thread
\* of the default executor.
NextSaves ==
    \/ \E w \in Savers, user_id \in UserIds : SaveRead(w, user_id)
    \/ \E w \in Savers : SaveInsert(w, "user")
SpecSaves == Init /\ [][NextSaves]_vars

\* The dual-account path of the manager, for every MAIN/BACKUP configuration.
InitPool ==
    /\ InitQueue
    /\ InitHistory(0, "chat") /\ InitSimulators /\ InitStream /\ InitThreads
    /\ \E main \in BOOLEAN, backup \in BOOLEAN : InitManager(main, backup, 5)
NextPool ==
    \/ \E c \in Callers : IncrementCounter(c)
    \/ \E c \in Callers : SelectClient(c)
    \/ \E c \in Callers : StartCall(c)
    \/ \E c \in Callers : EndCall(c)
SpecPool == InitPool /\ [][NextPool]_vars

\* The dual-account path with callers whose task may be cancelled.
NextPoolCancel ==
    \/ \E c \in Callers : IncrementCounter(c)
    \/ \E c \in Callers : SelectClient(c)
    \/ \E c \in Callers : StartCall(c)
    \/ \E c \in Callers : EndCall(c)
    \/ \E c \in Callers : CancelCall(c)
SpecPoolCancel == InitPool /\ [][NextPoolCancel]_vars

\* The multi-key path of the manager, for every number of configured keys.
InitKeys ==
    /\ InitQueue
    /\ InitHistory(0, "chat") /\ InitSimulators /\ InitStream /\ InitThreads
    /\ \E keys \in 0..5 : InitManager(TRUE, TRUE, keys)
NextKeys ==
    \/ RunAgent
    \/ GenerateEmbedding
    \/ ExtractMemoryContent
SpecKeys == InitKeys /\ [][NextKeys]_vars

\* The two chat entry points of the manager. run_agent_threadpool reads and
\* writes the dual-account fields only and run_agent the multi-key fields only,
\* so a behaviour runs one of the two; the dual-account path is run where all
\* five keys are set, for every MAIN/BACKUP configuration, and run_agent for
\* every number of keys.
InitChat ==
    /\ InitQueue
    /\ InitHistory(0, "chat") /\ InitSimulators /\ InitStream /\ InitThreads
    /\ \E main \in BOOLEAN, backup \in BOOLEAN, keys \in 0..5 :
         /\ keys = 5 \/ (main /\ backup)
         /\ InitManager(main, backup, keys)
ThreadpoolOnly == api_keys = 5 /\ calls.chat = 0
RunAgentOnly == global_request_counter = 0
NextChat ==
    \/ (ThreadpoolOnly /\ \E c \in Callers : IncrementCounter(c))
    \/ \E c \in Callers : SelectClient(c)
    \/ \E c \in Callers : StartCall(c)
    \/ \E c \in Callers : EndCall(c)
    \/ (RunAgentOnly /\ RunAgent)
SpecChat == InitChat /\ [][NextChat]_vars

\* The history of one user under concurrent turns, for every number of rows
\* the conversation table holds for the user at the start.
InitTurns ==
    /\ InitQueue
    /\ InitManager(TRUE, TRUE, 5)
    /\ \E rows \in 0..MaxRows : InitHistory(rows, "chat")
    /\ InitSimulators /\ InitStream /\ InitThreads
NextTurns ==
    \/ \E t \in TurnIds : TurnStart(t, "run_agent", "chat", NoHistory)
    \/ \E t \in TurnIds : FetchRows(t)
    \/ \E t \in TurnIds : Hydrate(t)
    \/ \E t \in TurnIds : TurnFinish(t)
    \/ Clear
    \/ SaveConversationMessage
SpecTurns == InitTurns /\ [][NextTurns]_vars

\* The two entry points called with every mode and with and without a
\* history, for the first MaxCalls calls made for the user.
NextCalls ==
    \/ \E t \in 1..MaxCalls, call \in {"run_agent", "run_agent_stream"},
          mode \in {"chat", "eval"}, arg \in HistoryArgs : TurnStart(t, call, mode, arg)
    \/ \E t \in TurnIds : FetchRows(t)
    \/ \E t \in TurnIds : Hydrate(t)
    \/ \E t \in TurnIds : StreamBegin(t)
    \/ \E t \in TurnIds : TurnFinish(t)
    \/ Clear
SpecCalls == InitTurns /\ [][NextCalls]_vars

\* The chat simulators of two users running side by side, for every number
\* of rows, of either mode, the first user has in the table at the start.
InitSimulation ==
    /\ InitQueue
    /\ InitManager(TRUE, TRUE, 5)
    /\ \E rows \in 0..MaxRows, mode \in {"chat", "eval"} : InitHistory(rows, mode)
    /\ InitSimulators /\ InitStream /\ InitThreads
NextSimulation ==
    \/ \E u \in UserIds : SimSaveQuestion(u)
    \/ \E u \in UserIds : SimSaveResponse(u)
    \/ \E u \in UserIds : SimCheckTrigger(u)
SpecSimulation == InitSimulation /\ [][NextSimulation]_vars

\* One call of AIServiceManager.run_agent_stream, for every number of
\* configured keys.
InitStreaming ==
    /\ InitQueue
    /\ InitHistory(0, "chat") /\ InitSimulators /\ InitStream /\ InitThreads
    /\ \E keys \in 0..5 : InitManager(TRUE, TRUE, keys)
NextStreaming ==
    \/ StreamO3
    \/ StreamStart
    \/ StreamChunk
    \/ StreamEnds
    \/ StreamAttemptFails
    \/ StreamFallbackResponse
SpecStreaming == InitStreaming /\ [][NextStreaming]_vars

\* ----------------------------------------------------------------- claims
\* Steps and sets the claims speak about.
ReleasedInStep(id) == result_future[id] = "pending" /\ result_future'[id] = "ready"
ArrivesInStep(id) == caller[id] = "unborn" /\ caller'[id] # "unborn"
IterationStep ==
    \E k \in TaskIds : /\ now' = now
                       /\ task[k].state = "sleeping"
                       /\ task'[k].state = "sleeping"
                       /\ task'[k].wake # task[k].wake
EnginePaused == ~is_running /\ \A k \in TaskIds : task[k].state # "sleeping"

\* C1: any two consecutive releases by _queue_processor are at least one
\* release_interval apart, whatever the arrivals.
C1_OneReleasePerInterval ==
    [][(\E id \in RequestIds : ReleasedInStep(id)) /\ last_release # NoTime
         => now - last_release >= release_interval]_vars

\* C2: requests are released in the order they were admitted (request ids are
\* handed out in admission order): a release never follows the release of a
\* request admitted later.
C2_ReleaseOrderIsFifo ==
    [][\A id \in RequestIds : ReleasedInStep(id)
         => \A j \in RequestIds : result_future[j] = "ready" => j < id]_vars

C2_Witness ==
    /\ result_future[1] = "ready"
    /\ result_future[2] = "timeout"
    /\ result_future[3] = "ready"

\* C3: total_enqueued == total_processed + total_rejected + total_timeout
\* + current_queue_size in every state.
C3_CounterConservation ==
    stats.total_enqueued = stats.total_processed + stats.total_rejected
                           + stats.total_timeout + stats.current_queue_size

\* C4: an arrival at a full queue is rejected at once (queue and
\* total_enqueued unchanged, total_rejected one more, the caller not left
\* waiting), an arrival at a queue with room is admitted, and the queue never
\* holds more than max_queue_size entries.
C4_RejectWhenFull ==
    /\ [](Len(request_queue) <= max_queue_size)
    /\ [][\A id \in RequestIds : ArrivesInStep(id) =>
            IF Len(request_queue) >= max_queue_size
            THEN /\ caller'[id] = "queue_full"
                 /\ result_future'[id] = "unborn"
                 /\ request_queue' = request_queue
                 /\ stats'.total_enqueued = stats.total_enqueued
                 /\ stats'.total_rejected = stats.total_rejected + 1
            ELSE /\ caller'[id] = "waiting"
                 /\ Len(request_queue') = Len(request_queue) + 1
                 /\ stats'.total_rejected = stats.total_rejected]_vars

C4_Witness ==
    /\ \E id \in RequestIds : caller[id] = "queue_full"
    /\ Len(request_queue) = max_queue_size
    /\ processor_task = NoTask

\* C9: a release happens only at a sampled time not later than the request's
\* timeout_time; a waiting request that an iteration finds past its deadline
\* gets the timeout error and is counted in total_timeout, and its caller
\* never returns normally (so makes no upstream call).
C9_ExpiredNeverReleased ==
    /\ [](\A id \in RequestIds :
            result_future[id] \in {"timeout", "shutdown"}
              => caller[id] = "request_timeout")
    /\ [][/\ \A i \in 1..Len(request_queue) :
               ReleasedInStep(request_queue[i].request_id)
                 => now <= request_queue[i].timeout_time
          /\ IterationStep =>
               LET late == {i \in 1..Len(request_queue) :
                              /\ now > request_queue[i].timeout_time
                              /\ result_future[request_queue[i].request_id] = "pending"}
               IN  /\ \A i \in late :
                        /\ result_future'[request_queue[i].request_id] = "timeout"
                        /\ caller'[request_queue[i].request_id] = "request_timeout"
                   /\ stats'.total_timeout = stats.total_timeout + Cardinality(late)]_vars

C9_Witness ==
    /\ \E id \in RequestIds : result_future[id] = "timeout"
    /\ \E id \in RequestIds : result_future[id] = "ready"
    /\ stats.total_timeout >= 1

\* C10: with the release task paused, a queued request does not stay pending
\* past its deadline.
C10_ExpiryWithoutEngine ==
    EnginePaused =>
        \A i \in 1..Len(request_queue) :
            result_future[request_queue[i].request_id] = "pending"
              => now <= request_queue[i].timeout_time

\* C5: with MAIN and BACKUP configured, the selection made for counter value n
\* is BACKUP iff n mod 6 = 0 and MAIN otherwise, and concurrent callers never
\* share or skip a counter value.
C5_FiveToOnePattern ==
    (main_client /\ backup_client) =>
        /\ \A n \in 1..MaxCounter :
             selection[n] # "none" =>
                 /\ (n % 6 = 0) => selection[n] = "backup"
                 /\ (n % 6 # 0) => selection[n] = "main"
        /\ \A c, d \in Callers :
             (c # d /\ tp[c].pc # "idle" /\ tp[d].pc # "idle")
               => tp[c].current_count # tp[d].current_count
        /\ \A n \in 1..MaxCounter :
             IF n <= global_request_counter
             THEN \/ selection[n] # "none"
                  \/ \E c \in Callers : tp[c].pc = "counted" /\ tp[c].current_count = n
             ELSE selection[n] = "none"

C5_Witness ==
    /\ main_client /\ backup_client
    /\ global_request_counter = 12
    /\ \A n \in 1..12 : selection[n] = IF n \in {6, 12} THEN "backup" ELSE "main"
    /\ \E c \in Callers : tp[c].pc = "in_flight" /\ tp[c].current_count = 12
    /\ \E c \in Callers : tp[c].pc = "in_flight" /\ tp[c].current_count = 11

\* C6: after 12 sequential run_agent calls on a cold counter the per-credential
\* statistics show MAIN total_calls = 10 and BACKUP total_calls = 2.
C6_RunAgentUsesDistribution ==
    (main_client /\ backup_client /\ calls.chat = 12) =>
        /\ main_api_stats.total_calls = 10
        /\ backup_api_stats.total_calls = 2

\* C7: every manager call that reaches the upstream was released by a
\* RateLimitedQueue first: upstream requests never outnumber queue releases.
C7_UpstreamOnlyAfterRelease ==
    upstream_requests <= stats.total_processed

\* C8: every upstream attempt of generate_embedding and extract_memory_content
\* is made with the MEMORY credential or, as its fallback, with BACKUP.
C8_MemoryCallsUseMemoryKey ==
    last_call.operation \in {"embedding", "extract"} =>
        \A i \in 1..Len(last_call.attempts) :
            last_call.attempts[i].credential \in {"MEMORY_API_KEY", "BACKUP_API_KEY"}

\* C11: when a stop_processor call returns, request_queue is empty and every
\* entry that was queued and pending when the call was made has got the
\* shutdown error (or was withdrawn by its caller): none was released or left
\* pending after stop was signalled.
C11_StopDrainsWithShutdown ==
    [][/\ StopProcessor =>
            /\ request_queue' = <<>>
            /\ \A id \in PendingQueued : result_future'[id] = "shutdown"
       /\ \A k \in TaskIds : (k \in stop_waiting /\ k \notin stop_waiting') =>
            /\ request_queue' = <<>>
            /\ \A id \in stop_snapshot[k] :
                 result_future'[id] \in {"shutdown", "cancelled"}]_vars

\* A queue as a returned stop_processor call leaves it (a queue that was never
\* started and holds nothing is the same to a further call).
StoppedAndDrained ==
    /\ ~is_running
    /\ stop_waiting = {}
    /\ TaskFinished(processor_task)
    /\ request_queue = <<>>

\* C12: a further stop_processor call on a stopped, drained queue (or on an
\* empty queue that was never started) returns without suspending and changes
\* nothing: queue, outcomes and counters stay as the first stop left them.
C12_StopIsIdempotent ==
    /\ [](StoppedAndDrained => ENABLED StopProcessor)
    /\ [][(StoppedAndDrained /\ StopProcessor) => UNCHANGED qvars]_vars

C12_Witness ==
    /\ StoppedAndDrained
    /\ processor_task # NoTask
    /\ \E id \in RequestIds : result_future[id] = "shutdown"
    /\ \E id \in RequestIds : result_future[id] = "ready"
    /\ stats.total_timeout >= 1

\* Every stop_processor call has returned and no engine task is left.
QueueStopped ==
    /\ processor_task # NoTask
    /\ ~is_running
    /\ stop_waiting = {}
    /\ \A k \in TaskIds : task[k].state # "sleeping"

\* C13: on a stopped queue no admitted request stays pending for longer than
\* one release_interval.
C13_ShutdownLiveness ==
    QueueStopped =>
        \A i \in 1..Len(request_queue) :
            result_future[request_queue[i].request_id] = "pending"
              => now - request_queue[i].enqueue_time <= release_interval

\* enqueue_request: the class of what it raises to its caller for each outcome
\* (`raise Exception(...)` at the capacity check and in `except TimeoutError`)
RaisedClass(outcome) ==
    CASE outcome = "queue_full" -> "Exception"
      [] outcome = "request_timeout" -> "Exception"
      [] outcome = "cancelled" -> "CancelledError"
      [] OTHER -> "none"

\* Why a request failed: rejected at admission, expired in the queue, or
\* failed by the shutdown drain.
FailureCause(id) ==
    IF caller[id] = "queue_full" THEN "queue_full"
    ELSE IF result_future[id] \in {"timeout", "shutdown"} THEN result_future[id]
    ELSE "none"

\* C14: two requests that failed for different reasons (queue full, expired,
\* shutting down) raise errors of different kinds to their callers.
C14_DistinctErrorKinds ==
    \A i, j \in RequestIds :
        (FailureCause(i) # "none" /\ FailureCause(j) # "none"
           /\ FailureCause(i) # FailureCause(j))
          => RaisedClass(caller[i]) # RaisedClass(caller[j])

\* C15: one call of the manager issues at most one upstream HTTP request,
\* whether it succeeds or fails.
C15_NoRetryInDispatcher ==
    Len(last_call.attempts) <= 1

\* A run_agent_threadpool call ends in this step.
ThreadpoolEndsInStep(c) == tp[c].pc = "in_flight" /\ tp'[c].pc = "idle"

\* C16: run_agent and run_agent_threadpool never raise: they return the
\* upstream reply when an upstream call succeeded and a string beginning with
\* "[OpenAI Error]" when none did (upstream failure, no client, missing key);
\* a failed upstream call of run_agent_threadpool adds one to failed_calls of
\* the credential that was selected for it.
C16_ChatErrorsAreStrings ==
    /\ [](last_call.operation \in {"chat_completion", "threadpool"} =>
            /\ last_call.returned \in {"reply", "[OpenAI Error]"}
            /\ last_call.returned = "reply" <=> last_call.result = "reply")
    /\ [][\A c \in Callers :
            (ThreadpoolEndsInStep(c) /\ last_call'.returned = "[OpenAI Error]") =>
                IF UsesMainStats(tp[c].api_type)
                THEN /\ main_api_stats'.failed_calls = main_api_stats.failed_calls + 1
                     /\ backup_api_stats' = backup_api_stats
                ELSE /\ backup_api_stats'.failed_calls = backup_api_stats.failed_calls + 1
                     /\ main_api_stats' = main_api_stats]_vars

C16_Witness ==
    /\ last_call.operation = "threadpool"
    /\ last_call.returned = "[OpenAI Error]"
    /\ Len(last_call.attempts) = 1
    /\ backup_api_stats.failed_calls = 1
    /\ main_api_stats.completed_calls = 5

C18_HistoryBounded ==
    Len(history) <= 2 * MAX_ROUNDS

C18_Witness ==
    /\ \A t \in 1..4 : turn[t].pc = "done"
    /\ history = <<Message("User", 2), Message("Assistant", 2),
                   Message("User", 3), Message("Assistant", 3),
                   Message("User", 4), Message("Assistant", 4)>>

\* C19: at no time are two fetches of recent turns outstanding for the same
\* user: concurrent first accesses share one fetch.
C19_SingleHydrationFetch ==
    Cardinality({t \in TurnIds : turn[t].pc \in {"fetching", "fetched"}}) <= 1

\* The history after the step is the history before it, extended at the tail
\* by the messages of at most one turn and cut at the head only as far as the
\* bound of 2 * MAX_ROUNDS requires.
KeepsAppends ==
    \E n \in 0..2 :
        LET keep == Len(history') - n
        IN  /\ keep >= 0
            /\ keep <= Len(history)
            /\ SubSeq(history', 1, keep)
                 = SubSeq(history, Len(history) - keep + 1, Len(history))
            /\ keep = Len(history) \/ Len(history') = 2 * MAX_ROUNDS

\* C20: no step other than clear() removes a message from the history except
\* by the truncation to 2 * MAX_ROUNDS: a hydration that completes late does
\* not overwrite messages that were appended in the meantime.
C20_NoAppendLost ==
    [][Clear \/ KeepsAppends]_vars

\* The most recent 2 * MAX_ROUNDS rows of the store as (role, content) pairs,
\* oldest first.
RecentMessages ==
    LET rows == store[TheUser]
        n == IF Len(rows) < 2 * MAX_ROUNDS THEN Len(rows) ELSE 2 * MAX_ROUNDS
    IN  [i \in 1..n |-> Message(rows[Len(rows) - n + i].role,
                                rows[Len(rows) - n + i].content)]

\* C21: the step that ends a first access (the fetch has returned all the
\* rows the store holds) leaves the hydrated flag set and the history equal
\* to the most recent 2 * MAX_ROUNDS stored messages, as (role, content)
\* pairs, oldest first; in particular it succeeds when rows are stored.
C21_HydrationLoadsRecent ==
    [][\A t \in TurnIds :
          (/\ turn[t].pc = "fetched"
           /\ turn'[t].pc # "fetched"
           /\ Len(turn[t].conversations) = Len(store[TheUser]))
          => (/\ turn'[t].pc = "memory_context"
              /\ initialized'
              /\ history' = RecentMessages)]_vars

\* C22: a call made with a history (the empty list included) leaves the
\* registry as it is: no entry is created, no fetch is issued, no message is
\* appended, and its prompt holds the supplied history; a call made without
\* one has an entry, puts the history of the user as read into its prompt and
\* ends by appending its user message and its reply.
C22_SuppliedHistoryBypassesRegistry ==
    [][\A t \in TurnIds :
          turn'[t] # turn[t] =>
            LET arg == IF turn[t].pc = "unborn" THEN turn'[t].arg ELSE turn[t].arg
                reads == turn'[t].pc \in {"memory_context", "streaming"}
                           /\ turn[t].pc \in {"unborn", "fetched"}
            IN  IF arg.omitted
                THEN /\ TheUser \in users'
                     /\ reads => turn'[t].prompt.history = history'
                     /\ turn'[t].pc = "done" =>
                           /\ Len(history') >= 2
                           /\ SubSeq(history', Len(history') - 1, Len(history'))
                                = <<Message("User", t), Message("Assistant", t)>>
                ELSE /\ UNCHANGED <<users, history, initialized>>
                     /\ turn'[t].pc \notin {"fetching", "fetched"}
                     /\ reads => turn'[t].prompt.history = arg.history]_vars

C22_Witness ==
    /\ turn[1].pc = "done"
    /\ history = <<Message("User", 1), Message("Assistant", 1)>>
    /\ turn[2].pc = "streaming"
    /\ turn[2].arg = [omitted |-> FALSE, history |-> <<>>]
    /\ turn[2].prompt.history = <<>>

\* C23: a call with mode == "eval", of either entry point, never awaits
\* create_memory_context and its prompt has no section of retrieved context.
C23_NoRetrievalInEval ==
    \A t \in TurnIds :
        turn[t].mode = "eval" =>
            /\ turn[t].pc # "memory_context"
            /\ ~turn[t].prompt.context

\* C24: the messages of the history stand in the order in which their turns
\* were issued, whatever the order in which the turns end.
C24_HistoryInIssueOrder ==
    \A i \in 1..Len(history), j \in 1..Len(history) :
        i < j => history[i].content <= history[j].content

\* The rows the table holds for the user in chat mode.
ChatRows(u) == {i \in 1..Len(store[u]) : store[u][i].mode = "chat"}

\* C25: the step that ends a persisted chat turn of a user spawns a memory
\* job exactly when the number of the user's chat rows is a multiple of 3;
\* a user who has persisted 9 chat turns has spawned exactly 3 jobs, whatever
\* rows the table held before and whatever the other user did meanwhile.
C25_TriggerCadence ==
    /\ [][\A u \in UserIds :
             sim'[u].turns = sim[u].turns + 1 =>
               sim'[u].jobs = sim[u].jobs
                                + (IF Cardinality(ChatRows(u)) % 3 = 0 THEN 1 ELSE 0)]_vars
    /\ [](\A u \in UserIds : sim[u].turns = 9 => sim[u].jobs = 3)

C25_Witness ==
    /\ sim[TheUser].turns = 9
    /\ sim[TheUser].jobs = 3
    /\ sim[OtherUser].turns = 4
    /\ sim[OtherUser].jobs = 1
    /\ Len(store[TheUser]) = 19

\* C26: where MAIN_API_KEY or BACKUP_API_KEY is missing there is no manager
\* that takes chat calls: none is counted, selected, started or answered.
C26_MissingKeyIsFatal ==
    (~main_client \/ ~backup_client) =>
        /\ global_request_counter = 0
        /\ \A c \in Callers : tp[c].pc = "idle"
        /\ last_call = NoCall

\* C27: every entry an iteration of the release engine takes out of the
\* queue, an entry whose caller has cancelled its wait included, is counted
\* by the iteration as released or as expired, so that the entries admitted
\* stay equal to those released, expired and still queued.
C27_CancelledEntriesCounted ==
    [][IterationStep =>
         (stats'.total_processed + stats'.total_timeout)
           - (stats.total_processed + stats.total_timeout)
         = Len(request_queue) - Len(request_queue')]_vars

\* The number of entries at the head of the queue that are past their deadline.
ExpiredAtHead ==
    CHOOSE n \in 0..Len(request_queue) :
        /\ \A i \in 1..n : now > request_queue[i].timeout_time
        /\ n = Len(request_queue) \/ now <= request_queue[n + 1].timeout_time

\* C28: one iteration of _queue_processor takes every expired entry at the
\* head out of the queue without releasing it and, in the same iteration,
\* takes out the entry that stands behind them and, if its caller still
\* waits, releases it.
C28_ExpiredTakeNoSlot ==
    [][IterationStep =>
         LET n == ExpiredAtHead
             fresh == n < Len(request_queue)
         IN  /\ request_queue' = SubSeq(request_queue, IF fresh THEN n + 2 ELSE n + 1,
                                        Len(request_queue))
             /\ \A i \in 1..n :
                   result_future'[request_queue[i].request_id] \notin {"pending", "ready"}
             /\ fresh /\ result_future[request_queue[n + 1].request_id] = "pending"
                   => result_future'[request_queue[n + 1].request_id] = "ready"]_vars

C28_Witness ==
    /\ result_future[1] = "timeout"
    /\ result_future[2] = "ready"
    /\ last_release = now
    /\ stats.total_timeout = 1
    /\ stats.total_processed = 1
    /\ \A k \in TaskIds \ {1} : task[k].state = "unborn"

\* The states of the entry of a request.
Queued(id) == \E i \in 1..Len(request_queue) : request_queue[i].request_id = id
Released(id) == result_future[id] = "ready"
Expired(id) == result_future[id] \in {"timeout", "shutdown"}
RejectedBeforeEnqueue(id) == caller[id] = "queue_full"
StatesOf(id) ==
    (IF Queued(id) THEN {"queued"} ELSE {})
      \cup (IF Released(id) THEN {"released"} ELSE {})
      \cup (IF Expired(id) THEN {"expired"} ELSE {})
      \cup (IF RejectedBeforeEnqueue(id) THEN {"rejected"} ELSE {})

\* C29: the entry of every request that has arrived is in exactly one of the
\* states queued, released, expired and rejected-before-enqueue; a future
\* that is resolved keeps its outcome, and an entry that has left the queue
\* does not come back.
C29_EntryStatesExclusive ==
    /\ [](\A id \in RequestIds :
             caller[id] # "unborn" => Cardinality(StatesOf(id)) = 1)
    /\ [][\A id \in RequestIds :
             /\ result_future[id] \notin {"unborn", "pending"}
                   => result_future'[id] = result_future[id]
             /\ (caller[id] # "unborn" /\ ~Queued(id))
                   => \A i \in 1..Len(request_queue') :
                          request_queue'[i].request_id # id]_vars

\* C30: the chunks one call of run_agent_stream yields from upstream are the
\* chunks of one response, each once and in the order of arrival: no chunk of
\* a later attempt follows a chunk of an earlier one.
C30_ChunksOfOneResponse ==
    \A i \in 1..Len(stream.yielded), j \in 1..Len(stream.yielded) :
        (i < j /\ stream.yielded[i].attempt # 0 /\ stream.yielded[j].attempt # 0) =>
            /\ stream.yielded[i].attempt = stream.yielded[j].attempt
            /\ stream.yielded[i].index < stream.yielded[j].index

\* The statistics of one credential are conserved.
StatsConserved(st) ==
    /\ st.total_calls = st.in_flight_calls + st.completed_calls + st.failed_calls
    /\ 0 <= st.in_flight_calls
    /\ st.in_flight_calls <= st.max_in_flight

\* C31: for MAIN and for BACKUP, total_calls = in_flight_calls +
\* completed_calls + failed_calls and 0 <= in_flight_calls <= max_in_flight,
\* and in_flight_calls is 0 whenever no run_agent_threadpool call is between
\* its start_call and its end, also after a caller was cancelled.
C31_CallStatsConserved ==
    /\ StatsConserved(main_api_stats)
    /\ StatsConserved(backup_api_stats)
    /\ (\A c \in Callers : tp[c].pc # "in_flight") =>
           /\ main_api_stats.in_flight_calls = 0
           /\ backup_api_stats.in_flight_calls = 0

\* C32: the two add_message calls that end a turn leave the history equal to
\* the last min(n + 2, 2 * MAX_ROUNDS) elements of the previous history
\* followed by the two new messages: the order is kept, only the head is
\* dropped, and the newest message is the last element.
C32_DropOldestRing ==
    [][\A t \in TurnIds :
          (turn[t].pc # "done" /\ turn'[t].pc = "done" /\ turn[t].arg.omitted) =>
             LET all == history \o <<Message("User", t), Message("Assistant", t)>>
                 k == IF Len(all) < 2 * MAX_ROUNDS THEN Len(all) ELSE 2 * MAX_ROUNDS
             IN  /\ history' = SubSeq(all, Len(all) - k + 1, Len(all))
                 /\ history'[Len(history')] = Message("Assistant", t)]_vars

C32_Witness ==
    /\ \A t \in 1..4 : turn[t].pc = "done"
    /\ Len(history) = 2 * MAX_ROUNDS
    /\ history[1] = Message("User", 1)
    /\ history[2 * MAX_ROUNDS] = Message("Assistant", 4)

\* C33: at most one _queue_processor task is alive at any time, whatever the
\* order of the start_processor and stop_processor calls.
C33_SingleEngineTask ==
    Cardinality({k \in TaskIds : task[k].state = "sleeping"}) <= 1

\* C34: while the release engine runs, an admitted request whose caller waits
\* does not wait forever: the caller gets its timing record or its timeout
\* (or gives up the wait itself).
C34_NoSilentDrop ==
    \A id \in RequestIds :
        (caller[id] = "waiting" /\ is_running) ~> (caller[id] # "waiting")

C34_Witness ==
    /\ is_running
    /\ request_queue = <<>>
    /\ caller[1] = "returned"
    /\ caller[2] = "request_timeout"
    /\ caller[3] = "returned"
    /\ stats.total_enqueued = 3

\* C35: the reported depth is exact: stats["current_queue_size"] equals the
\* length of request_queue in every state, and max_queue_size_reached is never
\* below it.
C35_DepthExact ==
    /\ stats.current_queue_size = Len(request_queue)
    /\ stats.max_queue_size_reached >= stats.current_queue_size

\* a thread that is about to take a lock another thread holds
WaitsForLock(t) ==
    /\ thread[t].todo # <<>>
    /\ Head(thread[t].todo).do = "acquire"
    /\ Holder(Head(thread[t].todo).lock) # NoThread

\* C36: no deadlock between get_stats on one thread and enqueue_request,
\* _queue_processor or stop_processor on another: whenever a thread waits for a
\* lock, some thread inside an operation can go on (and so releases its locks).
C36_NoLockDeadlock ==
    (\E t \in Threads : WaitsForLock(t))
        => (\E u \in Threads : thread[u].todo # <<>> /\ ~WaitsForLock(u))

\* C37: with at least one of MAIN and BACKUP configured, no call of
\* get_api_for_next_request raises, and each returns a client that exists:
\* MAIN's when only MAIN is configured, BACKUP's when only BACKUP is.
C37_FallbackTotal ==
    (main_client \/ backup_client) =>
        \A n \in DOMAIN selection :
            /\ selection[n] # "ValueError"
            /\ (selection[n] \in {"main", "main_fallback"} => main_client)
            /\ (selection[n] = "backup" => backup_client)

\* C38: the history that run_agent manages for a user whose hydration returned
\* no messages holds complete turns only: in every state its length is even
\* and its entries are the User message of a turn followed by the Assistant
\* reply of the same turn, whatever the interleaving and after truncation.
C38_CompleteTurns ==
    /\ Len(history) % 2 = 0
    /\ \A i \in 1..Len(history) :
          IF i % 2 = 1
          THEN history[i].role = "User"
          ELSE /\ history[i].role = "Assistant"
               /\ history[i].content = history[i - 1].content

C38_Witness ==
    /\ store[TheUser] = <<>>
    /\ Len(history) = 2 * MAX_ROUNDS
    /\ history[1] = Message("User", 2)
    /\ history[3] = Message("User", 4)
    /\ history[5] = Message("User", 3)

\* C39: a call of run_agent leaves chat_index and shared_index as it found
\* them (each went once round its group), and both stay inside their lists.
C39_IndicesCallInvariant ==
    [][calls'.chat # calls.chat =>
          /\ chat_index' = chat_index
          /\ shared_index' = shared_index
          /\ chat_index' \in 0..(Len(chat_priority_indices) - 1)
          /\ shared_index' \in 0..(Len(shared_indices) - 1)]_vars

\* C40: the stored rows of a user carry strictly increasing sequence numbers,
\* so no two rows of a user share one, and each new row's number is the
\* previous maximum plus 1.
C40_UniqueSequenceNumbers ==
    \A u \in UserIds :
        \A i \in 1..Len(store[u]) : store[u][i].sequence_number = i

====
